---- MODULE Spec2Model ----
(***************************************************************************)
(* EFX allocation search for four agents: normalization, round robin with  *)
(* consideration (Phase 1A), champion graph (Phase 1B), the EFX gate and   *)
(* the cut-and-choose redistribution (Phase 2).                            *)
(*                                                                         *)
(* Numbers.  The program works on normalized valuations raw/sum (target 1).*)
(* The model keeps them exact: `unit' is the integer that stands for 1.0,  *)
(* a common multiple of the players' raw sums, and val[p][g] is the        *)
(* normalized valuation times `unit'.  A tolerance of 0.001 is unit/1000,  *)
(* so  a > b + 0.001  is written  1000*a > 1000*b + unit.                  *)
(* Players P1..P4 are 1..4 and goods are 1..n in good-list order, so the   *)
(* lexicographic order on names is the order on the integers.              *)
(***************************************************************************)
EXTENDS Integers, Sequences, FiniteSets, TLC

\* ------------------------------------------------------------------ bounds
MaxGoods == 8
MinGoods == 1
MaxRaw == 3
MaxSteps == 8

\* ------------------------------------------------------- program constants
NumPlayers == 4
TieDenA == 1000
TieDenB == 1000
SacrificeNum == 1
SacrificeDen == 5
TopOptions == 3

Players == 1..NumPlayers

\* ------------------------------------------------------ sequence helpers
Range(s) == {s[k] : k \in 1..Len(s)}

RECURSIVE SeqSum(_)
SeqSum(s) == IF s = <<>> THEN 0 ELSE Head(s) + SeqSum(Tail(s))

Remove(s, x) == SelectSeq(s, LAMBDA y : y # x)

Abs(x) == IF x < 0 THEN -x ELSE x

Max0(x) == IF x > 0 THEN x ELSE 0

RECURSIVE Gcd(_, _)
Gcd(a, b) == IF b = 0 THEN a ELSE Gcd(b, a % b)

Lcm(a, b) == (a * b) \div Gcd(a, b)

\* Insert x into the descending-sorted sequence s after every element whose
\* key is >= key(x): sorted(..., reverse=True) keeps equal keys in input order.
RECURSIVE InsertDesc(_, _, _)
InsertDesc(s, x, key) ==
    IF s = <<>> THEN <<x>>
    ELSE IF key[Head(s)] >= key[x] THEN <<Head(s)>> \o InsertDesc(Tail(s), x, key)
    ELSE <<x>> \o s

RECURSIVE SortDesc(_, _)
SortDesc(s, key) ==
    IF s = <<>> THEN <<>>
    ELSE InsertDesc(SortDesc(SubSeq(s, 1, Len(s) - 1), key), s[Len(s)], key)

\* ------------------------------------------------------------------ state
VARIABLES
    n,          \* number of goods; the good list is <<1, ..., n>>
    raw,        \* Player.valuation of every player
    val,        \* Player.get_valuation: normalized valuations times unit
    unit,       \* the integer standing for 1.0 (0 before normalization)
    pc,         \* position in find_efx_allocation_algorithm_1
    alloc,      \* assignments: player -> list of goods
    util,       \* cached utilities of the Allocation object
    available,  \* available_goods of Phase 1A
    order,      \* ordered_players of Phase 1A
    turn,       \* number of Phase 1A turns taken
    remaining,  \* goods Phase 1B still has to assign
    queue,      \* envy_relationships of Phase 2
    seen,       \* seen_states of Phase 2
    step,       \* step counter of Phase 2
    last,       \* what the latest Phase 1B / Phase 2 step did
    info,       \* phase2_info
    error       \* the RuntimeError raised, <<>> when none

vars == <<n, raw, val, unit, pc, alloc, util, available, order, turn,
          remaining, queue, seen, step, last, info, error>>

Goods == 1..n

GoodList == [k \in 1..n |-> k]

\* ------------------------------------------------------------ valuations
\* sum(player.get_valuation(g) for g in bundle)
BundleValue(p, bundle) == SeqSum([k \in 1..Len(bundle) |-> val[p][bundle[k]]])

\* sum(self.valuation.values()): the player's own table
RawSum(p) == SeqSum(raw[p])

RECURSIVE LcmOver(_)
LcmOver(s) == IF s = <<>> THEN 1 ELSE Lcm(Head(s), LcmOver(Tail(s)))

\* The common denominator of the four normalized tables.
UnitOf ==
    LcmOver([p \in Players |->
                IF RawSum(p) # 0 THEN RawSum(p)
                ELSE IF raw[p] = <<>> THEN 1 ELSE Len(raw[p])])

\* Faulty variant: a table that sums to zero is left as it is.
NormalizeValuationsKeepsZero(p, u) ==
    IF RawSum(p) = 0
    THEN raw[p]
    ELSE [g \in 1..Len(raw[p]) |-> raw[p][g] * (u \div RawSum(p))]

\* Player.normalize_valuations(target = 1), scaled by u.
NormalizeValuations(p, u) ==
    IF RawSum(p) = 0
    THEN [g \in 1..Len(raw[p]) |-> u \div Len(raw[p])]
    ELSE [g \in 1..Len(raw[p]) |-> raw[p][g] * (u \div RawSum(p))]

\* AllocationManager.calculate_utilities
CalculateUtilities(a) == [p \in Players |-> BundleValue(p, a[p])]

\* ---------------------------------------------------------- envy matrices
\* _calculate_envy_matrix: envy(i,j) = max(0, v_i(X_j) - v_i(X_i))
EnvyEntry(a, i, j) ==
    IF i = j THEN 0
    ELSE Max0(BundleValue(i, a[j]) - BundleValue(i, a[i]))

EnvyMatrix(a) == [i \in Players |-> [j \in Players |-> EnvyEntry(a, i, j)]]

\* Faulty variant: the scan for the least valued item starts at the second
\* item, so a single-item bundle has none.
RECURSIVE LeastValuedItemSkipFirst(_, _, _, _)
LeastValuedItemSkipFirst(i, bundle, k, best) ==
    IF k = 1 THEN LeastValuedItemSkipFirst(i, bundle, 2, best)
    ELSE IF k > Len(bundle) THEN best
    ELSE IF best = 0 \/ val[i][bundle[k]] < val[i][best]
         THEN LeastValuedItemSkipFirst(i, bundle, k + 1, bundle[k])
         ELSE LeastValuedItemSkipFirst(i, bundle, k + 1, best)

\* The item of the bundle that player i values least: first strict minimum.
RECURSIVE LeastValuedItem(_, _, _, _)
LeastValuedItem(i, bundle, k, best) ==
    IF k > Len(bundle) THEN best
    ELSE IF best = 0 \/ val[i][bundle[k]] < val[i][best]
         THEN LeastValuedItem(i, bundle, k + 1, bundle[k])
         ELSE LeastValuedItem(i, bundle, k + 1, best)

\* Faulty variant: the value of i's own bundle is not subtracted.
EfxEnvyEntryNoOwn(a, i, j) ==
    IF i = j THEN 0
    ELSE IF a[j] = <<>> THEN 0
    ELSE Max0(BundleValue(i, Remove(a[j], LeastValuedItem(i, a[j], 1, 0))))

\* _calculate_efx_envy_matrix: envy left after removing the least valued item
EfxEnvyEntry(a, i, j) ==
    IF i = j THEN 0
    ELSE IF a[j] = <<>> THEN 0
    ELSE Max0(BundleValue(i, Remove(a[j], LeastValuedItem(i, a[j], 1, 0)))
              - BundleValue(i, a[i]))

EfxEnvyMatrix(a) == [i \in Players |-> [j \in Players |-> EfxEnvyEntry(a, i, j)]]

PairSeq == [k \in 1..(NumPlayers * NumPlayers) |->
              <<((k - 1) \div NumPlayers) + 1, ((k - 1) % NumPlayers) + 1>>]

TotalEnvy(a) == SeqSum([k \in 1..Len(PairSeq) |-> EnvyEntry(a, PairSeq[k][1], PairSeq[k][2])])

TotalEfxEnvy(a) == SeqSum([k \in 1..Len(PairSeq) |-> EfxEnvyEntry(a, PairSeq[k][1], PairSeq[k][2])])

\* ------------------------------------------------------------- check_EFX
\* Faulty variant: the whole bundle_j is compared, no good is removed.
EnvyDetectedNoRemoval(i, bundleJ, utilI, k) ==
    utilI < BundleValue(i, bundleJ)

\* Faulty variant: the comparison with the cached utility is strict.
RECURSIVE EnvyDetectedStrict(_, _, _, _)
EnvyDetectedStrict(i, bundleJ, utilI, k) ==
    IF k > Len(bundleJ) THEN TRUE
    ELSE IF utilI > BundleValue(i, Remove(bundleJ, bundleJ[k])) THEN FALSE
    ELSE EnvyDetectedStrict(i, bundleJ, utilI, k + 1)

\* The inner loop of check_EFX: envy_detected stays True unless removing
\* some good of bundle_j brings i's valuation to or below i's cached utility.
RECURSIVE EnvyDetected(_, _, _, _)
EnvyDetected(i, bundleJ, utilI, k) ==
    IF k > Len(bundleJ) THEN TRUE
    ELSE IF utilI >= BundleValue(i, Remove(bundleJ, bundleJ[k])) THEN FALSE
    ELSE EnvyDetected(i, bundleJ, utilI, k + 1)

\* The outer loops of check_EFX over the ordered pairs, with the early return.
RECURSIVE CheckEFXFrom(_, _, _)
CheckEFXFrom(a, u, k) ==
    IF k > Len(PairSeq) THEN TRUE
    ELSE LET i == PairSeq[k][1]
             j == PairSeq[k][2]
         IN IF i = j THEN CheckEFXFrom(a, u, k + 1)
            ELSE IF a[j] = <<>> THEN CheckEFXFrom(a, u, k + 1)
            ELSE IF EnvyDetected(i, a[j], u[i], 1) THEN FALSE
            ELSE CheckEFXFrom(a, u, k + 1)

\* Variant: false as soon as one single removal leaves envy.
CheckEfxAnyRemoval(a, u) ==
    \A i \in Players : \A j \in Players \ {i} : \A k \in 1..Len(a[j]) :
        u[i] >= BundleValue(i, Remove(a[j], a[j][k]))

\* AllocationChecker.check_EFX
check_EFX(a, u) == CheckEFXFrom(a, u, 1)

\* -------------------------------------------------------------- Phase 1A
RawSumSq(p) == SeqSum([g \in 1..n |-> raw[p][g] * raw[p][g]])

\* Player.get_std_deviation as an exact fraction.  The normalized table of
\* p is raw/RawSum(p) and sums to 1, so n*(n-1) times its sample variance is
\* (n*RawSumSq(p) - RawSum(p)^2) / RawSum(p)^2; it is 0 for a table of equal
\* values (raw sum zero) and 0.0 when there is at most one good.
StdDevNum(p) ==
    IF n > 1 /\ RawSum(p) # 0 THEN n * RawSumSq(p) - RawSum(p) * RawSum(p) ELSE 0

StdDevDen(p) == IF RawSum(p) # 0 THEN RawSum(p) * RawSum(p) ELSE 1

\* a / b >= c / d for a, c >= 0 and b, d > 0, by integer parts and
\* remainders (no product of the four numbers is formed).
RECURSIVE FracGeq(_, _, _, _)
FracGeq(a, b, c, d) ==
    IF a \div b # c \div d THEN a \div b > c \div d
    ELSE IF c % d = 0 THEN TRUE
    ELSE IF a % b = 0 THEN FALSE
    ELSE FracGeq(d, c % d, b, a % b)

StdDevGeq(p, q) == FracGeq(StdDevNum(p), StdDevDen(p), StdDevNum(q), StdDevDen(q))

\* player_std_devs.sort(key=std_dev, reverse=True): stable, equal keys keep
\* the order of self.players.
RECURSIVE InsertByStdDev(_, _)
InsertByStdDev(s, x) ==
    IF s = <<>> THEN <<x>>
    ELSE IF StdDevGeq(Head(s), x) THEN <<Head(s)>> \o InsertByStdDev(Tail(s), x)
    ELSE <<x>> \o s

RECURSIVE SortByStdDev(_)
SortByStdDev(s) ==
    IF s = <<>> THEN <<>>
    ELSE InsertByStdDev(SortByStdDev(SubSeq(s, 1, Len(s) - 1)), s[Len(s)])

\* ordered_players
OrderedPlayers == SortByStdDev([p \in Players |-> p])

\* _get_top_options: the goods of the top_n options, best first
GetTopOptions(p, avail, topN) ==
    LET sorted == SortDesc(avail, val[p])
    IN SubSeq(sorted, 1, IF Len(sorted) < topN THEN Len(sorted) ELSE topN)

\* The inner loop of _calculate_future_benefit: first good of strictly
\* highest value above 0, or 0 for None.
RECURSIVE BestGoodFor(_, _, _, _)
BestGoodFor(p, goods, k, best) ==
    IF k > Len(goods) THEN best
    ELSE IF val[p][goods[k]] > (IF best = 0 THEN 0 ELSE val[p][best])
         THEN BestGoodFor(p, goods, k + 1, goods[k])
         ELSE BestGoodFor(p, goods, k + 1, best)

\* total_benefit of _calculate_future_benefit
RECURSIVE TotalBenefit(_, _)
TotalBenefit(players, goods) ==
    IF players = <<>> \/ goods = <<>> THEN 0
    ELSE LET best == BestGoodFor(Head(players), goods, 1, 0)
         IN IF best = 0 THEN TotalBenefit(Tail(players), goods)
            ELSE val[Head(players)][best] + TotalBenefit(Tail(players), Remove(goods, best))

\* _calculate_future_benefit times len(remaining_players)
FutureBenefit(players, goods) ==
    IF players = <<>> \/ goods = <<>> THEN 0 ELSE TotalBenefit(players, goods)

\* opportunity_cost of one tied option for the next player
OpportunityCost(next, good, avail) ==
    LET rest == Remove(avail, good)
    IN IF rest = <<>> THEN -val[next][good]
       ELSE val[next][good] - val[next][SortDesc(rest, val[next])[1]]

\* The loop of _break_tie_with_opportunity_cost: first strictly lowest cost.
RECURSIVE LowestCostOption(_, _, _, _, _)
LowestCostOption(tied, next, avail, k, best) ==
    IF k > Len(tied) THEN best
    ELSE IF OpportunityCost(next, tied[k], avail) < OpportunityCost(next, best, avail)
         THEN LowestCostOption(tied, next, avail, k + 1, tied[k])
         ELSE LowestCostOption(tied, next, avail, k + 1, best)

BreakTieWithOpportunityCost(tied, remainingPlayers, avail) ==
    IF remainingPlayers = <<>> THEN tied[1]
    ELSE LowestCostOption(tied, remainingPlayers[1], avail, 2, tied[1])

\* sacrifice and consideration score of an option; the score is kept times
\* len(remaining_players), the divisor of the future benefit.
Sacrifice(p, options, good) == val[p][options[1]] - val[p][good]

\* Faulty variant: no option is ever skipped.
TooMuchSacrificeNever(p, options, good) == FALSE

TooMuchSacrifice(p, options, good) ==
    /\ val[p][options[1]] > 0
    /\ SacrificeDen * Sacrifice(p, options, good) > SacrificeNum * val[p][options[1]]

ConsiderationScore(p, options, good, remainingPlayers, avail) ==
    FutureBenefit(remainingPlayers, Remove(avail, good))
        - Len(remainingPlayers) * Sacrifice(p, options, good)

\* Faulty variant: an option that wins does not raise best_score.
ConsiderOptionKeepsScore(p, options, good, remainingPlayers, avail, st) ==
    LET score == ConsiderationScore(p, options, good, remainingPlayers, avail)
        tol   == Len(remainingPlayers) * unit
    IN IF TooMuchSacrifice(p, options, good) THEN st
       ELSE IF TieDenA * score > TieDenA * st.score + tol
            THEN [score |-> st.score, choice |-> good, tied |-> <<good>>]
       ELSE IF TieDenA * Abs(score - st.score) <= tol /\ st.score > 0
            THEN [st EXCEPT !.tied = IF good \in Range(@) THEN @ ELSE Append(@, good)]
       ELSE st

\* One iteration of the loop of _choose_with_consideration on the state
\* st = [score |-> best_score, choice |-> best_choice, tied |-> tied_options].
ConsiderOption(p, options, good, remainingPlayers, avail, st) ==
    LET score == ConsiderationScore(p, options, good, remainingPlayers, avail)
        tol   == Len(remainingPlayers) * unit
    IN IF TooMuchSacrifice(p, options, good) THEN st
       ELSE IF TieDenA * score > TieDenA * st.score + tol
            THEN [score |-> score, choice |-> good, tied |-> <<good>>]
       ELSE IF TieDenA * Abs(score - st.score) <= tol /\ st.score > 0
            THEN [st EXCEPT !.tied = IF good \in Range(@) THEN @ ELSE Append(@, good)]
       ELSE st

RECURSIVE ConsiderLoop(_, _, _, _, _, _)
ConsiderLoop(p, options, k, remainingPlayers, avail, st) ==
    IF k > Len(options) THEN st
    ELSE ConsiderLoop(p, options, k + 1, remainingPlayers, avail,
                      ConsiderOption(p, options, options[k], remainingPlayers, avail, st))

\* _choose_with_consideration: the good of the returned option
ChooseWithConsideration(p, options, remainingPlayers, avail) ==
    LET st == ConsiderLoop(p, options, 1, remainingPlayers, avail,
                           [score |-> 0, choice |-> options[1], tied |-> <<>>])
    IN IF Len(st.tied) > 1
       THEN BreakTieWithOpportunityCost(st.tied, remainingPlayers, avail)
       ELSE st.choice

\* The good chosen in the turn of order[t + 1]
ChosenGood(t) ==
    LET current == order[t + 1]
        remainingPlayers == SubSeq(order, t + 2, Len(order))
        options == GetTopOptions(current, available, TopOptions)
    IN IF remainingPlayers = <<>> THEN options[1]
       ELSE ChooseWithConsideration(current, options, remainingPlayers, available)

\* Faulty variant: the goods after the first len(players) ones, whoever holds what.
GetRemainingGoodsByPosition(a) ==
    SubSeq(GoodList, NumPlayers + 1, n)

\* _get_remaining_goods
GetRemainingGoods(a) ==
    SelectSeq(GoodList, LAMBDA g : \A p \in Players : g \notin Range(a[p]))

EmptyAllocation == [p \in Players |-> <<>>]

\* -------------------------------------------------------------- Phase 1B
\* gain of potential champion c from receiving bundle_j + good
ChampionGain(a, good, j, c) ==
    BundleValue(c, Append(a[j], good)) - BundleValue(c, a[c])

\* The inner loop of _build_champion_graph over the potential champions,
\* with st = [champ |-> best_champion (0 for None), gain |-> best_gain].
\* best_current_utility is the utility of st.champ (infinite for None).
RECURSIVE BestChampion(_, _, _, _, _)
BestChampion(a, good, j, c, st) ==
    IF c > NumPlayers THEN st
    ELSE IF c = j THEN BestChampion(a, good, j, c + 1, st)
    ELSE LET gain == ChampionGain(a, good, j, c)
             cur  == BundleValue(c, a[c])
         IN IF \/ gain > st.gain
               \/ /\ gain = st.gain
                  /\ (st.champ = 0 \/ cur < BundleValue(st.champ, a[st.champ]))
            THEN BestChampion(a, good, j, c + 1, [champ |-> c, gain |-> gain])
            ELSE BestChampion(a, good, j, c + 1, st)

Champion(a, good, j) == BestChampion(a, good, j, 1, [champ |-> 0, gain |-> -unit])

\* Faulty variant: an edge is added as soon as the best gain is not negative.
BuildChampionGraphNonNegative(good, a) ==
    [j \in Players |->
        LET st == Champion(a, good, j)
        IN IF st.champ # 0 /\ st.gain >= 0 THEN st.champ ELSE 0]

\* _build_champion_graph: 0 where the player has no outgoing edge
BuildChampionGraph(good, a) ==
    [j \in Players |->
        LET st == Champion(a, good, j)
        IN IF st.champ # 0 /\ st.gain > 0 THEN st.champ ELSE 0]

\* Faulty variant: the whole walk is returned, the tail into the cycle included.
RECURSIVE DfsWithTail(_, _, _, _)
DfsWithTail(graph, node, path, visited) ==
    IF node \in Range(path)
    THEN [cycle |-> path, visited |-> visited]
    ELSE IF node \in visited THEN [cycle |-> <<>>, visited |-> visited]
    ELSE IF graph[node] # 0
         THEN DfsWithTail(graph, graph[node], Append(path, node), visited \cup {node})
         ELSE [cycle |-> <<>>, visited |-> visited \cup {node}]

\* dfs of _find_all_cycles: path is the walk so far (rec_stack is its set),
\* visited the shared set.  Returns the cycle (<<>> for None) and visited.
RECURSIVE Dfs(_, _, _, _)
Dfs(graph, node, path, visited) ==
    IF node \in Range(path)
    THEN LET start == CHOOSE k \in 1..Len(path) : path[k] = node
         IN [cycle |-> SubSeq(path, start, Len(path)), visited |-> visited]
    ELSE IF node \in visited THEN [cycle |-> <<>>, visited |-> visited]
    ELSE IF graph[node] # 0
         THEN Dfs(graph, graph[node], Append(path, node), visited \cup {node})
         ELSE [cycle |-> <<>>, visited |-> visited \cup {node}]

\* The loop of _find_all_cycles over the start nodes (the keys of the graph,
\* in player order).
RECURSIVE FindCyclesFrom(_, _, _, _)
FindCyclesFrom(graph, start, visited, cycles) ==
    IF start > NumPlayers THEN cycles
    ELSE IF graph[start] = 0 \/ start \in visited
         THEN FindCyclesFrom(graph, start + 1, visited, cycles)
    ELSE LET r == Dfs(graph, start, <<>>, visited)
         IN FindCyclesFrom(graph, start + 1, r.visited,
                IF r.cycle # <<>> /\ r.cycle \notin Range(cycles)
                THEN Append(cycles, r.cycle) ELSE cycles)

FindAllCycles(graph) == FindCyclesFrom(graph, 1, {}, <<>>)

\* Faulty variant: the bundles rotate but the good is given to nobody.
RotationDropsGood(cycle, good, a) ==
    [p \in Players |->
        IF p \notin Range(cycle) THEN a[p]
        ELSE LET i == CHOOSE k \in 1..Len(cycle) : cycle[k] = p
             IN a[cycle[(i % Len(cycle)) + 1]]]

\* The allocation after rotating the bundles around the cycle and giving the
\* good to the first member of the cycle.
Rotation(cycle, good, a) ==
    [p \in Players |->
        IF p \notin Range(cycle) THEN a[p]
        ELSE LET i == CHOOSE k \in 1..Len(cycle) : cycle[k] = p
                 next == a[cycle[(i % Len(cycle)) + 1]]
             IN IF i = 1 THEN Append(next, good) ELSE next]

\* _calculate_envy_reduction
CalculateEnvyReduction(cycle, good, a) ==
    SeqSum([i \in 1..Len(cycle) |->
        Max0(BundleValue(cycle[i], Rotation(cycle, good, a)[cycle[i]])
             - BundleValue(cycle[i], a[cycle[i]]))])

RECURSIVE BestCycleLoop(_, _, _, _, _)
BestCycleLoop(cycles, good, a, k, best) ==
    IF k > Len(cycles) THEN best.cycle
    ELSE LET red == CalculateEnvyReduction(cycles[k], good, a)
         IN IF red > best.reduction
            THEN BestCycleLoop(cycles, good, a, k + 1, [cycle |-> cycles[k], reduction |-> red])
            ELSE BestCycleLoop(cycles, good, a, k + 1, best)

\* _choose_best_cycle
ChooseBestCycle(cycles, good, a) ==
    IF Len(cycles) = 1 THEN cycles[1]
    ELSE BestCycleLoop(cycles, good, a, 1, [cycle |-> cycles[1], reduction |-> 0])

DirectAssignment(p, good, a) == [a EXCEPT ![p] = Append(@, good)]

\* One iteration of the Strategy 1 loop of _process_cycle on the state
\* st = [efx, envy, recipient (0 for None, efx and envy then infinite), tied].
TestDirect(p, good, a, st) ==
    LET test == DirectAssignment(p, good, a)
        efx  == TotalEfxEnvy(test)
        envy == TotalEnvy(test)
        win  == [efx |-> efx, envy |-> envy, recipient |-> p, tied |-> <<p>>]
    IN IF st.recipient = 0 THEN win
       ELSE IF TieDenB * efx < TieDenB * st.efx - unit THEN win
       ELSE IF TieDenB * Abs(efx - st.efx) <= unit
            THEN IF TieDenB * envy < TieDenB * st.envy - unit THEN win
                 ELSE IF TieDenB * Abs(envy - st.envy) <= unit
                      THEN LET t1 == IF p \in Range(st.tied) THEN st.tied
                                     ELSE Append(st.tied, p)
                               t2 == IF Len(t1) = 1 /\ st.recipient \notin Range(t1)
                                     THEN <<st.recipient>> \o t1 ELSE t1
                           IN [efx  |-> IF efx < st.efx THEN efx ELSE st.efx,
                               envy |-> IF envy < st.envy THEN envy ELSE st.envy,
                               recipient |-> p, tied |-> t2]
                      ELSE st
       ELSE st

RECURSIVE DirectLoop(_, _, _, _, _)
DirectLoop(cycle, good, a, k, st) ==
    IF k > Len(cycle) THEN st
    ELSE DirectLoop(cycle, good, a, k + 1, TestDirect(cycle[k], good, a, st))

SeqMin(s) == CHOOSE x \in Range(s) : \A y \in Range(s) : x <= y

\* Strategy 1 of _process_cycle: best_direct_efx_envy, best_direct_envy and
\* best_direct_recipient after the lexicographic tie-break.
BestDirect(cycle, good, a) ==
    LET st == DirectLoop(cycle, good, a, 1,
                         [efx |-> 0, envy |-> 0, recipient |-> 0, tied |-> <<>>])
    IN [efx |-> st.efx, envy |-> st.envy, tied |-> st.tied,
        recipient |-> IF Len(st.tied) > 1 THEN SeqMin(st.tied) ELSE st.recipient]

\* strategies.sort(key=(efx, envy)); strategies[0] is the rotation only when
\* it is strictly smaller in that order (the sort is stable).
RotationWins(cycle, good, a) ==
    LET d    == BestDirect(cycle, good, a)
        rot  == Rotation(cycle, good, a)
        refx == TotalEfxEnvy(rot)
    IN \/ refx < d.efx
       \/ refx = d.efx /\ TotalEnvy(rot) < d.envy

\* _process_cycle
ProcessCycle(cycle, good, a) ==
    IF RotationWins(cycle, good, a)
    THEN Rotation(cycle, good, a)
    ELSE DirectAssignment(BestDirect(cycle, good, a).recipient, good, a)

\* Faulty variant: the players that are nobody's champion.
SourcesNotChampion(graph) == {p \in Players : \A j \in Players : graph[j] # p}

\* sources of _assign_to_source: the players that are no key of the graph
Sources(graph) == {p \in Players : graph[p] = 0}

\* The fallback of _assign_to_source: first player of strictly highest value.
RECURSIVE HighestValuation(_, _, _)
HighestValuation(good, p, best) ==
    IF p > NumPlayers THEN best
    ELSE IF best = 0 \/ val[p][good] > val[best][good]
         THEN HighestValuation(good, p + 1, p)
         ELSE HighestValuation(good, p + 1, best)

\* _assign_to_source: the recipients the loop over the set of sources can
\* end with.  A Python set of names has no fixed iteration order, and the
\* loop keeps the first source of strictly lowest utility it meets.
SourceRecipients(good, a, graph) ==
    IF Sources(graph) # {}
    THEN {s \in Sources(graph) :
            \A t \in Sources(graph) : BundleValue(s, a[s]) <= BundleValue(t, a[t])}
    ELSE {HighestValuation(good, 1, 0)}

\* --------------------------------------------------------------- Phase 2
\* _get_envy_relationships: the pairs of strictly positive EFX-envy, in
\* player order
GetEnvyRelationships(a) ==
    SelectSeq(PairSeq, LAMBDA pr : pr[1] # pr[2] /\ EfxEnvyEntry(a, pr[1], pr[2]) > 0)

\* _create_phase2_state_hash: the hashed tuple (hash collisions aside)
CreatePhase2StateHash(rel, a) ==
    LET involved == {pr[1] : pr \in Range(rel)} \cup {pr[2] : pr \in Range(rel)}
    IN [rel |-> Range(rel), goods |-> [p \in involved |-> Range(a[p])]]

\* Faulty variant: once bundle 2 is the current bundle it stays the current
\* bundle.
SplitStepNoSwitchBack(p, good, total, st) ==
    IF st.cur = 1
    THEN LET b1 == Append(st.b1, good)
         IN [b1 |-> b1, b2 |-> st.b2,
             cur |-> IF BundleValue(p, b1) > BundleValue(p, st.b2) /\ total > Len(b1)
                     THEN 2 ELSE 1]
    ELSE [b1 |-> st.b1, b2 |-> Append(st.b2, good), cur |-> 2]

\* The loop of _create_efx_bundles_split_division on the state
\* st = [b1, b2, cur]; total is len(sorted_goods).
SplitStep(p, good, total, st) ==
    IF st.cur = 1
    THEN LET b1 == Append(st.b1, good)
         IN [b1 |-> b1, b2 |-> st.b2,
             cur |-> IF BundleValue(p, b1) > BundleValue(p, st.b2) /\ total > Len(b1)
                     THEN 2 ELSE 1]
    ELSE LET b2 == Append(st.b2, good)
         IN [b1 |-> st.b1, b2 |-> b2,
             cur |-> IF BundleValue(p, b2) > BundleValue(p, st.b1)
                        /\ total > Len(st.b1) + Len(b2)
                     THEN 1 ELSE 2]

RECURSIVE SplitLoop(_, _, _, _)
SplitLoop(p, sorted, k, st) ==
    IF k > Len(sorted) THEN st
    ELSE SplitLoop(p, sorted, k + 1, SplitStep(p, sorted[k], Len(sorted), st))

\* _create_efx_bundles_split_division: <<bundle1, bundle2>>, <<>> for None
CreateEfxBundlesSplitDivision(p, goods) ==
    IF Len(goods) < 2 THEN <<>>
    ELSE LET st == SplitLoop(p, SortDesc(goods, val[p]), 1,
                             [b1 |-> <<>>, b2 |-> <<>>, cur |-> 1])
         IN IF st.b1 = <<>> /\ st.b2 # <<>>
            THEN <<<<st.b2[Len(st.b2)]>>, SubSeq(st.b2, 1, Len(st.b2) - 1)>>
            ELSE IF st.b2 = <<>> /\ st.b1 # <<>>
            THEN <<SubSeq(st.b1, 1, Len(st.b1) - 1), <<st.b1[Len(st.b1)]>>>>
            ELSE <<st.b1, st.b2>>

\* One scenario of _is_division_efx_for_player: the holder of `own' does not
\* envy `other' after the removal of any one item, checked item by item.
RECURSIVE NoEnvyAfterRemoval(_, _, _, _)
NoEnvyAfterRemoval(p, own, other, k) ==
    IF k > Len(other) THEN TRUE
    ELSE IF BundleValue(p, own) < BundleValue(p, Remove(other, other[k])) THEN FALSE
    ELSE NoEnvyAfterRemoval(p, own, other, k + 1)

\* _is_division_efx_for_player
IsDivisionEfxForPlayer(p, bundleA, bundleB) ==
    IF bundleA = <<>> \/ bundleB = <<>> THEN FALSE
    ELSE /\ NoEnvyAfterRemoval(p, bundleA, bundleB, 1)
         /\ NoEnvyAfterRemoval(p, bundleB, bundleA, 1)

\* _find_efx_division_for_envier: <<bundle_a, bundle_b>>, <<>> for None
FindEfxDivisionForEnvier(envier, allGoods) ==
    IF Len(allGoods) < 2 THEN <<>>
    ELSE LET d == CreateEfxBundlesSplitDivision(envier, allGoods)
         IN IF d # <<>> /\ IsDivisionEfxForPlayer(envier, d[1], d[2]) THEN d ELSE <<>>

\* The choose step: the envied player takes bundle A unless it values
\* bundle B strictly more.
EnviedChoosesA(envied, d) == BundleValue(envied, d[1]) >= BundleValue(envied, d[2])

\* Faulty variant: only the envied player's bundle is replaced.
TestAllocationKeepsEnvier(a, envier, envied, d) ==
    [p \in Players |->
        IF p = envied THEN (IF EnviedChoosesA(envied, d) THEN d[1] ELSE d[2])
        ELSE a[p]]

\* test_allocation of a Phase 2 step
TestAllocation(a, envier, envied, d) ==
    [p \in Players |->
        IF p = envier THEN (IF EnviedChoosesA(envied, d) THEN d[2] ELSE d[1])
        ELSE IF p = envied THEN (IF EnviedChoosesA(envied, d) THEN d[1] ELSE d[2])
        ELSE a[p]]

\* Faulty variant: a redistribution that leaves the total equal is applied.
AcceptedOrEqual(a, test) == TotalEfxEnvy(test) <= TotalEfxEnvy(a)

\* Faulty variant: every redistribution is applied.
AcceptedAlways(a, test) == TRUE

\* The redistribution is applied only if it lowers the total EFX-envy.
Accepted(a, test) == TotalEfxEnvy(test) < TotalEfxEnvy(a)

\* Faulty variant: seen_states is never emptied.
SeenAfterNeverReset(seenStates, hash, accepted) == seenStates \cup {hash}

\* seen_states at the end of a step that computed `hash': emptied when the
\* redistribution was accepted, else it keeps everything added so far.
SeenAfter(seenStates, hash, accepted) ==
    IF accepted THEN {} ELSE seenStates \cup {hash}

\* Faulty variant: the early exit tests the total with >= instead of =.
EfxAchievedNonNegative(a) == TotalEfxEnvy(a) >= 0

\* Faulty variant: the early exit is never taken.
EfxAchievedNever(a) == FALSE

\* The check at the end of a step: EFX is achieved, return early.
EfxAchieved(a) == TotalEfxEnvy(a) = 0

\* ----------------------------------------------------------------- input
\* Valuation tables the runs start from.  Column g of a table with fewer
\* columns is column ((g - 1) mod width) + 1.
Seeds == <<
    << <<0,1,2,3,0,0,2>>, <<1,1,1,0,3,0,1>>, <<3,1,0,2,3,3,0>>, <<3,3,3,1,0,2,3>> >>,
    << <<3,1,0,3,2,0,1>>, <<1,3,2,1,0,0,1>>, <<0,0,2,2,0,1,2>>, <<2,2,2,1,3,3,3>> >>,
    << <<2,1,0,1,3,2,3>>, <<0,2,3,2,1,1,1>>, <<3,0,0,0,2,2,1>>, <<2,2,3,0,3,3,2>> >>,
    << <<0,2,2,0,1,2,2,2>>, <<1,1,2,2,1,0,1,0>>, <<2,2,2,2,0,2,1,2>>, <<2,2,2,1,1,0,0,2>> >>,
    << <<0,2,2,0,1,2,2,2>>, <<2,1,2,2,0,1,1,0>>, <<1,2,2,2,0,2,1,2>>, <<2,2,2,0,1,1,0,2>> >>,
    << <<2,2,0,1,0,2,2,1>>, <<0,2,0,0,0,1,2,2>>, <<2,2,0,2,0,1,1,0>>, <<2,0,1,2,1,1,1,2>> >> >>

SeedTable(k, m) ==
    [p \in Players |-> [g \in 1..m |-> Seeds[k][p][((g - 1) % Len(Seeds[k][p])) + 1]]]

\* A seed table over m goods with the valuation of one good by one player
\* replaced by any value of 0..MaxRaw.
InputTables(m) ==
    {[SeedTable(k, m) EXCEPT ![p][g] = v] :
        k \in 1..Len(Seeds), p \in Players, g \in 1..m, v \in 0..MaxRaw}

NoInfo == [executed |-> FALSE, steps |-> 0, improvements_found |-> FALSE,
           efx_achieved_in_phase2 |-> FALSE, envy_reduction |-> 0,
           initial_envy |-> 0, final_envy |-> 0]

NoStep == [kind |-> "none"]

\* --------------------------------------------------------------- actions
\* Construction of the players, manager, checker and finder.
Init ==
    /\ n \in MinGoods..MaxGoods
    /\ raw \in InputTables(n)
    /\ val = raw
    /\ unit = 0
    /\ pc = "start"
    /\ alloc = EmptyAllocation
    /\ util = [p \in Players |-> 0]
    /\ available = <<>>
    /\ order = <<>>
    /\ turn = 0
    /\ remaining = <<>>
    /\ queue = <<>>
    /\ seen = {}
    /\ step = 0
    /\ last = NoStep
    /\ info = NoInfo
    /\ error = <<>>

\* _normalize_all_valuations
NormalizeAll ==
    /\ pc = "start"
    /\ unit' = UnitOf
    /\ val' = [p \in Players |-> NormalizeValuations(p, UnitOf)]
    /\ pc' = "round_robin"
    /\ UNCHANGED <<n, raw, alloc, util, available, order, turn, remaining,
                   queue, seen, step, last, info, error>>

\* _initial_round_robin_with_consideration up to its loop
StartRoundRobin ==
    /\ pc = "round_robin"
    /\ alloc' = EmptyAllocation
    /\ available' = GoodList
    /\ order' = OrderedPlayers
    /\ turn' = 0
    /\ pc' = "phase1a"
    /\ UNCHANGED <<n, raw, val, unit, util, remaining, queue, seen, step, last, info, error>>

\* One turn of the round robin loop
RoundRobinTurn ==
    /\ pc = "phase1a"
    /\ turn < Len(order)
    /\ available # <<>>
    /\ LET chosen == ChosenGood(turn)
       IN /\ alloc' = [alloc EXCEPT ![order[turn + 1]] = Append(@, chosen)]
          /\ available' = Remove(available, chosen)
    /\ turn' = turn + 1
    /\ UNCHANGED <<n, raw, val, unit, pc, util, order, remaining, queue, seen,
                   step, last, info, error>>

\* The loop ends (every player had a turn, or no good is left); the
\* orchestrator builds the Allocation object and the list for Phase 1B.
EndRoundRobin ==
    /\ pc = "phase1a"
    /\ turn >= Len(order) \/ available = <<>>
    /\ util' = CalculateUtilities(alloc)
    /\ remaining' = GetRemainingGoods(alloc)
    /\ pc' = "phase1b"
    /\ UNCHANGED <<n, raw, val, unit, alloc, available, order, turn, queue,
                   seen, step, last, info, error>>

\* _champion_graph_allocation for the next remaining good
ChampionGraphAllocation ==
    /\ pc = "phase1b"
    /\ remaining # <<>>
    /\ LET good   == Head(remaining)
           graph  == BuildChampionGraph(good, alloc)
           cycles == FindAllCycles(graph)
       IN IF cycles # <<>>
          THEN LET best == ChooseBestCycle(cycles, good, alloc)
               IN /\ alloc' = ProcessCycle(best, good, alloc)
                  /\ last' = [kind |-> IF RotationWins(best, good, alloc)
                                       THEN "rotation" ELSE "direct",
                              good |-> good, graph |-> graph, cycle |-> best,
                              before |-> alloc]
          ELSE \E r \in SourceRecipients(good, alloc, graph) :
                  /\ alloc' = DirectAssignment(r, good, alloc)
                  /\ last' = [kind |-> IF Sources(graph) # {} THEN "source"
                                       ELSE "fallback",
                              good |-> good, graph |-> graph, cycle |-> <<>>,
                              before |-> alloc]
    /\ util' = CalculateUtilities(alloc')
    /\ remaining' = Tail(remaining)
    /\ UNCHANGED <<n, raw, val, unit, pc, available, order, turn, queue, seen,
                   step, info, error>>

\* Phase 1 is complete and check_EFX holds on its allocation: the
\* orchestrator returns it with the initial phase2_info.
ReturnPhase1 ==
    /\ pc = "phase1b"
    /\ remaining = <<>>
    /\ check_EFX(alloc, CalculateUtilities(alloc))
    /\ util' = CalculateUtilities(alloc)
    /\ pc' = "done"
    /\ UNCHANGED <<n, raw, val, unit, alloc, available, order, turn, remaining,
                   queue, seen, step, last, info, error>>

\* Phase 1 is complete and check_EFX fails: the orchestrator records the
\* execution of Phase 2 and _phase2_stepwise_redistribution starts.
StartPhase2 ==
    /\ pc = "phase1b"
    /\ remaining = <<>>
    /\ ~check_EFX(alloc, CalculateUtilities(alloc))
    /\ util' = CalculateUtilities(alloc)
    /\ info' = [info EXCEPT !.executed = TRUE, !.initial_envy = TotalEnvy(alloc)]
    /\ queue' = GetEnvyRelationships(alloc)
    /\ seen' = {}
    /\ step' = 0
    /\ last' = NoStep
    /\ pc' = "phase2"
    /\ UNCHANGED <<n, raw, val, unit, alloc, available, order, turn, remaining,
                   error>>

CycleError == <<"Cycle detected in Phase 2 - algorithm failed.">>

\* The message of the final check, without its formatted EFX-envy total.
ExhaustedError == <<"Phase 2 failed: No valid redistribution found and EFX-envy is not zero.">>

\* One iteration of the while loop of _phase2_stepwise_redistribution
Phase2Step ==
    /\ pc = "phase2"
    /\ queue # <<>>
    /\ step < MaxSteps
    /\ step' = step + 1
    /\ LET hash    == CreatePhase2StateHash(queue, alloc)
           envier  == Head(queue)[1]
           envied  == Head(queue)[2]
           goods   == alloc[envier] \o alloc[envied]
           d       == FindEfxDivisionForEnvier(envier, goods)
           test    == TestAllocation(alloc, envier, envied, d)
       IN IF hash \in seen
          THEN \* cycle detected: RuntimeError
               /\ pc' = "phase2_raised"
               /\ error' = CycleError
               /\ last' = [kind |-> "cycle", envier |-> envier, envied |-> envied,
                           division |-> <<>>]
               /\ UNCHANGED <<alloc, util, queue, seen>>
          ELSE IF Len(goods) < 2 \/ d = <<>>
          THEN \* the pair is skipped: continue
               /\ queue' = Tail(queue)
               /\ seen' = SeenAfter(seen, hash, FALSE)
               /\ last' = [kind |-> "skip", envier |-> envier, envied |-> envied,
                           division |-> <<>>]
               /\ UNCHANGED <<alloc, util, pc, error>>
          ELSE /\ IF Accepted(alloc, test)
                  THEN /\ alloc' = test
                       /\ util' = CalculateUtilities(test)
                       /\ queue' = GetEnvyRelationships(test)
                       /\ last' = [kind |-> "accept", envier |-> envier,
                                   envied |-> envied, division |-> d]
                  ELSE /\ queue' = Tail(queue)
                       /\ last' = [kind |-> "reject", envier |-> envier,
                                   envied |-> envied, division |-> d]
                       /\ UNCHANGED <<alloc, util>>
               /\ seen' = SeenAfter(seen, hash, Accepted(alloc, test))
               /\ pc' = IF EfxAchieved(alloc') THEN "phase2_returned" ELSE "phase2"
               /\ UNCHANGED error
    /\ UNCHANGED <<n, raw, val, unit, available, order, turn, remaining, info>>

\* The while loop ends with an empty queue: the final check
Phase2Exhausted ==
    /\ pc = "phase2"
    /\ queue = <<>>
    /\ IF EfxAchieved(alloc)
       THEN pc' = "phase2_returned" /\ UNCHANGED error
       ELSE pc' = "phase2_raised" /\ error' = ExhaustedError
    /\ UNCHANGED <<n, raw, val, unit, alloc, util, available, order, turn,
                   remaining, queue, seen, step, last, info>>

\* The orchestrator after _phase2_stepwise_redistribution returned
AfterPhase2Return ==
    /\ pc = "phase2_returned"
    /\ info' = [info EXCEPT !.steps = step,
                            !.improvements_found = TRUE,
                            !.final_envy = TotalEnvy(alloc),
                            !.envy_reduction = info.initial_envy - TotalEnvy(alloc),
                            !.efx_achieved_in_phase2 = check_EFX(alloc, util)]
    /\ pc' = "done"
    /\ UNCHANGED <<n, raw, val, unit, alloc, util, available, order, turn,
                   remaining, queue, seen, step, last, error>>

\* The orchestrator's except clause: a new RuntimeError is raised
AfterPhase2Raise ==
    /\ pc = "phase2_raised"
    /\ info' = [info EXCEPT !.improvements_found = FALSE,
                            !.efx_achieved_in_phase2 = FALSE,
                            !.final_envy = info.initial_envy,
                            !.envy_reduction = 0]
    /\ error' = <<"Algorithm failed in Phase 2: ">> \o error
    /\ pc' = "failed"
    /\ UNCHANGED <<n, raw, val, unit, alloc, util, available, order, turn,
                   remaining, queue, seen, step, last>>

Next ==
    \/ NormalizeAll
    \/ StartRoundRobin
    \/ RoundRobinTurn
    \/ EndRoundRobin
    \/ ChampionGraphAllocation
    \/ ReturnPhase1
    \/ StartPhase2
    \/ Phase2Step
    \/ Phase2Exhausted
    \/ AfterPhase2Return
    \/ AfterPhase2Raise

Spec == Init /\ [][Next]_vars

\* The while loop of Phase 2 takes its next iteration: Phase2Step is
\* enabled exactly when this guard holds, and it is the only step of Next
\* that counts a step.
Phase2Iteration ==
    /\ pc = "phase2"
    /\ queue # <<>>
    /\ step < MaxSteps
    /\ step' = step + 1
    /\ pc' \in {"phase2", "phase2_returned", "phase2_raised"}

\* The while loop of Phase 2 is left with an empty queue: Phase2Exhausted
\* is enabled exactly when this guard holds.
Phase2LoopExit ==
    /\ pc = "phase2"
    /\ queue = <<>>
    /\ pc' \in {"phase2_returned", "phase2_raised"}
    /\ step' = step

\* The program is sequential and runs to completion: an iteration of the
\* Phase 2 loop that can be taken is eventually taken.
FairSpec ==
    Spec /\ WF_<<pc, step>>(Phase2Iteration) /\ WF_<<pc, step>>(Phase2LoopExit)

\* ------------------------------------------------------------ properties
\* An Allocation object with utilities from calculate_utilities exists.
HasAllocationObject == pc \notin {"start", "round_robin", "phase1a"}

\* Phase 1 (1A and 1B) has completed.
Phase1Complete ==
    \/ pc = "phase1b" /\ remaining = <<>>
    \/ pc \in {"phase2", "phase2_returned", "phase2_raised", "done", "failed"}

\* i still envies bundle_j after the removal of its k-th good.
EnviesAfterRemoval(u, i, j, k) ==
    BundleValue(i, Remove(alloc[j], alloc[j][k])) > u[i]

\* A step of the Phase 2 loop is being taken.
Phase2Stepped == pc = "phase2" /\ step' = step + 1

\* C1: check_EFX is false exactly when some ordered pair of distinct agents
\* (i, j) with a non-empty bundle_j has v_i(bundle_j minus g) > utility_i for
\* every good g of bundle_j; an empty bundle_j never makes it false.
C1_CheckEfxCharacterised ==
    HasAllocationObject =>
        (~check_EFX(alloc, util) <=>
            \E i \in Players : \E j \in Players \ {i} :
                /\ alloc[j] # <<>>
                /\ \A k \in 1..Len(alloc[j]) : EnviesAfterRemoval(util, i, j, k))

C1_Witness ==
    /\ pc = "phase2"
    /\ ~check_EFX(alloc, util)
    /\ \E i \in Players : \E j \in Players \ {i} :
          Len(alloc[j]) >= 2 /\ \A k \in 1..Len(alloc[j]) : EnviesAfterRemoval(util, i, j, k)

C3_Partition ==
    Phase1Complete =>
        \A g \in Goods :
            Cardinality({pk \in Players \X (1..n) :
                            pk[2] <= Len(alloc[pk[1]]) /\ alloc[pk[1]][pk[2]] = g}) = 1

C3_Witness ==
    /\ pc = "done"
    /\ info.executed
    /\ step >= 2
    /\ \E p \in Players : Len(alloc[p]) >= 3

\* C4: Phase 2 finishes: it either returns an allocation of total EFX-envy
\* zero or raises one of its two fatal errors; it never runs forever (the
\* step cap is never reached) and never returns positive total EFX-envy.
C4_Phase2Terminates ==
    /\ [](pc = "phase2_returned" => TotalEfxEnvy(alloc) = 0)
    /\ [](pc = "phase2_raised" => error \in {CycleError, ExhaustedError})
    /\ [](pc = "phase2" /\ queue # <<>> => step < MaxSteps)
    /\ (pc = "phase2") ~> (pc \in {"phase2_returned", "phase2_raised"})

C4_Witness ==
    /\ pc = "phase2_raised"
    /\ step = 3
    /\ TotalEfxEnvy(alloc) > 0

\* C5: in every allocation state of Phase 1A, 1B and 2 and for every ordered
\* pair (i, j), efx_envy(i,j) <= envy(i,j), and both are 0 when i = j.
C5_EnvyDominance ==
    \A i \in Players : \A j \in Players :
        /\ EfxEnvyMatrix(alloc)[i][j] <= EnvyMatrix(alloc)[i][j]
        /\ i = j => EfxEnvyMatrix(alloc)[i][j] = 0 /\ EnvyMatrix(alloc)[i][j] = 0

C5_Witness ==
    /\ pc = "phase2"
    /\ \E i \in Players : \E j \in Players :
          0 < EfxEnvyMatrix(alloc)[i][j] /\ EfxEnvyMatrix(alloc)[i][j] < EnvyMatrix(alloc)[i][j]

\* C6 as stated: for every ordered pair (i, j) in which bundle_j holds at
\* most one good, efx_envy(i,j) equals envy(i,j).
C6_EqualityUpToOneGood ==
    \A i \in Players : \A j \in Players :
        Len(alloc[j]) <= 1 => EfxEnvyMatrix(alloc)[i][j] = EnvyMatrix(alloc)[i][j]

\* C6 amended: for every ordered pair (i, j) in which bundle_j holds at most
\* one good, efx_envy(i,j) is 0; it equals envy(i,j) when bundle_j is empty.
C6_ZeroUpToOneGood ==
    \A i \in Players : \A j \in Players :
        Len(alloc[j]) <= 1 =>
            /\ EfxEnvyMatrix(alloc)[i][j] = 0
            /\ alloc[j] = <<>> => EfxEnvyMatrix(alloc)[i][j] = EnvyMatrix(alloc)[i][j]

C6_Witness ==
    \E i \in Players : \E j \in Players :
        /\ Len(alloc[j]) = 1
        /\ EnvyMatrix(alloc)[i][j] > 0
        /\ EfxEnvyMatrix(alloc)[i][j] = 0

\* The division of the latest Phase 2 step is EFX for player p under either
\* ownership: no item removed from one bundle leaves it worth more to p than
\* the other bundle.
DivisionEfxFor(p, d) ==
    /\ \A k \in 1..Len(d[2]) :
          BundleValue(p, Remove(d[2], d[2][k])) <= BundleValue(p, d[1])
    /\ \A k \in 1..Len(d[1]) :
          BundleValue(p, Remove(d[1], d[1][k])) <= BundleValue(p, d[2])

\* C7: in a Phase 2 step the cut-and-choose result replaces the allocation
\* only if its total EFX-envy is strictly lower than before the step; on a
\* rejected step or a skipped pair bundles and utilities are unchanged; so
\* the total EFX-envy never increases and strictly decreases when accepted.
C7_AcceptReject ==
    [][Phase2Stepped =>
        /\ alloc' # alloc => TotalEfxEnvy(alloc') < TotalEfxEnvy(alloc)
        /\ last'.kind \in {"reject", "skip", "cycle"} => alloc' = alloc /\ util' = util
        /\ last'.kind = "accept" =>
              /\ TotalEfxEnvy(alloc') < TotalEfxEnvy(alloc)
              /\ util' = CalculateUtilities(alloc')
        /\ TotalEfxEnvy(alloc') <= TotalEfxEnvy(alloc)]_vars

C7_Witness ==
    /\ pc = "phase2"
    /\ last.kind = "reject"
    /\ step >= 2
    /\ TotalEfxEnvy(alloc) > 0

\* C8: every division passed to the choose step is EFX for the envier under
\* either ownership; a skipped pair leaves the allocation unchanged; after
\* an accepted step efx_envy(envier, envied) is 0.
C8_CutGuarantee ==
    [][Phase2Stepped =>
        /\ last'.kind \in {"accept", "reject"} =>
              /\ DivisionEfxFor(last'.envier, last'.division)
              /\ Range(last'.division[1]) \cup Range(last'.division[2])
                    = Range(alloc[last'.envier]) \cup Range(alloc[last'.envied])
        /\ last'.kind = "skip" => alloc' = alloc /\ util' = util
        /\ last'.kind = "accept" =>
              EfxEnvyMatrix(alloc')[last'.envier][last'.envied] = 0]_vars

C8_Witness ==
    /\ last.kind = "accept"
    /\ Len(last.division[1]) >= 2
    /\ Len(last.division[2]) >= 2
    /\ alloc[last.envied] = last.division[2]
    /\ EnvyMatrix(alloc)[last.envier][last.envied] > 0

\* C9: Phase 2 returns at the first step after which the total EFX-envy is
\* zero, accepted or rejected, whatever is left in the queue; while it runs
\* the total is positive, and nothing is processed after the return.
C9_EarlyExit ==
    /\ [][Phase2Stepped /\ last'.kind \in {"accept", "reject"} =>
            (TotalEfxEnvy(alloc') = 0 <=> pc' = "phase2_returned")]_vars
    /\ [](pc = "phase2" => TotalEfxEnvy(alloc) > 0)
    /\ [][(pc \in {"phase2_returned", "done"}) =>
            (alloc' = alloc /\ step' = step /\ queue' = queue)]_vars

C9_Witness ==
    /\ pc = "phase2_returned"
    /\ last.kind = "accept"
    /\ step >= 2
    /\ TotalEfxEnvy(alloc) = 0

EveryRemovalLeavesEnvy ==
    \E i \in Players : \E j \in Players \ {i} :
        /\ alloc[j] # <<>>
        /\ \A k \in 1..Len(alloc[j]) :
              EnviesAfterRemoval(CalculateUtilities(alloc), i, j, k)

\* C11: Phase 2 is executed if and only if check_EFX is false on the
\* allocation of Phase 1; when it is true that allocation is returned
\* unchanged with executed = false, steps = 0, improvements_found = false.
C11_Phase2Gate ==
    /\ [][(pc = "phase1b" /\ remaining = <<>>) =>
            IF EveryRemovalLeavesEnvy
            THEN pc' = "phase2" /\ info'.executed /\ alloc' = alloc
            ELSE pc' = "done" /\ alloc' = alloc /\ info' = NoInfo]_vars
    /\ [](pc \in {"phase2", "phase2_returned", "phase2_raised", "failed"}
             => info.executed)
    /\ []((pc = "done" /\ ~info.executed) =>
             /\ ~EveryRemovalLeavesEnvy
             /\ ~info.improvements_found
             /\ info.steps = 0
             /\ step = 0)
    /\ [][(info.executed) => info'.executed]_vars

C11_Witness ==
    /\ pc = "done"
    /\ ~info.executed
    /\ info.steps = 0
    /\ n >= 5
    /\ \E i \in Players : \E j \in Players : EnvyMatrix(alloc)[i][j] > 0

\* C12: when Phase 2 ends in CycleDetected or Exhausted, the error raised by
\* the redistribution phase reaches the caller unchanged, with no retry and
\* no further change of the allocation.
C12_ErrorPropagatesUnchanged ==
    pc = "failed" =>
        /\ error \in {CycleError, ExhaustedError}
        /\ info.executed

\* ------------------------------------------- construction and normalization
\* Largest good list of the inputs handed to the constructors.
MaxConstructGoods == 6
MaxCutGoods == 4

\* Inputs of the constructors: a seed table over m goods as it is, with the
\* table of one player all zero, with one player lacking the valuations of
\* its last goods, with a player less or a player more.
ConstructTables(m) ==
    LET tables == {SeedTable(k, m) : k \in 1..Len(Seeds)}
    IN tables
       \cup {[t EXCEPT ![p] = [g \in 1..m |-> 0]] : t \in tables, p \in Players}
       \cup {[t EXCEPT ![p] = SubSeq(@, 1, len)] :
                t \in tables, p \in Players, len \in 0..(m - 1)}
       \cup {SubSeq(t, 1, NumPlayers - 1) : t \in tables}
       \cup {Append(t, t[1]) : t \in tables}

\* Before AllocationManager, AllocationChecker and AllocationFinder are built
ConstructInit ==
    /\ n \in 0..MaxConstructGoods
    /\ raw \in ConstructTables(n)
    /\ val = raw
    /\ unit = 0
    /\ pc = "new"
    /\ alloc = EmptyAllocation
    /\ util = [p \in Players |-> 0]
    /\ available = <<>>
    /\ order = <<>>
    /\ turn = 0
    /\ remaining = <<>>
    /\ queue = <<>>
    /\ seen = {}
    /\ step = 0
    /\ last = NoStep
    /\ info = NoInfo
    /\ error = <<>>

PlayerCountError == <<"This code is designed to work with exactly 4 players">>

\* The three constructors: each checks len(players) and nothing else.
Construct ==
    /\ pc = "new"
    /\ IF Len(raw) # NumPlayers
       THEN pc' = "rejected" /\ error' = PlayerCountError
       ELSE pc' = "start" /\ UNCHANGED error
    /\ UNCHANGED <<n, raw, val, unit, alloc, util, available, order, turn,
                   remaining, queue, seen, step, last, info>>

ConstructNext == Construct \/ NormalizeAll

ConstructSpec == ConstructInit /\ [][ConstructNext]_vars

\* Four players, each with a valuation for every good of the good list.
ValidInput == Len(raw) = NumPlayers /\ \A p \in 1..Len(raw) : Len(raw[p]) = n

\* C13: an input whose player count is not four, or in which some player has
\* no valuation for some good, is rejected at construction, before any
\* normalization is applied and before any allocation state is produced.
C13_ValidationFailsFast ==
    (pc # "new" /\ ~ValidInput) => (pc = "rejected" /\ unit = 0 /\ val = raw)

\* C14: normalize_valuations(target) completes on every table of
\* nonnegative values over a good list of any length >= 0; a table that sums
\* to zero gets target / (number of goods) for every good, any other table
\* is scaled so that the normalized values sum to target (unit stands for
\* target = 1).
C14_NormalizationFailSoft ==
    (pc = "round_robin") =>
        /\ unit > 0
        /\ \A p \in Players :
              /\ Len(val[p]) = Len(raw[p])
              /\ IF RawSum(p) = 0
                 THEN \A g \in 1..Len(raw[p]) : val[p][g] * Len(raw[p]) = unit
                 ELSE /\ SeqSum(val[p]) = unit
                      /\ \A g \in 1..Len(raw[p]) :
                            val[p][g] * RawSum(p) = raw[p][g] * unit

C14_Witness ==
    /\ pc = "round_robin"
    /\ \E p \in Players : RawSum(p) = 0 /\ Len(raw[p]) >= 2 /\ val[p][1] > 0
    /\ \E p \in Players : \E g \in 1..Len(raw[p]) : 0 < val[p][g] /\ val[p][g] < unit

\* C15: two runs on the same good list, valuation tables and configuration
\* end with the same allocation and diagnostics (or the same failure), also
\* when several sources of the champion graph have equal utility: every
\* state of a run has one possible next state, so the recipient that
\* _assign_to_source can end with is unique.
C15_Deterministic ==
    (pc = "phase1b" /\ remaining # <<>>) =>
        LET good  == Head(remaining)
            graph == BuildChampionGraph(good, alloc)
        IN FindAllCycles(graph) = <<>> =>
              Cardinality({DirectAssignment(r, good, alloc) :
                              r \in SourceRecipients(good, alloc, graph)}) = 1

\* C16: when the EFX-envy of every ordered pair is 0 and the utilities are
\* those of calculate_utilities, check_EFX returns true.
C16_ZeroEfxEnvyPassesCheck ==
    (HasAllocationObject /\ TotalEfxEnvy(alloc) = 0) =>
        check_EFX(alloc, CalculateUtilities(alloc))

C16_Witness ==
    /\ pc = "phase2_returned"
    /\ TotalEfxEnvy(alloc) = 0
    /\ TotalEnvy(alloc) > 0
    /\ check_EFX(alloc, util)

\* C17: Phase 1A ends when the pool is empty or every agent has had a turn;
\* at that moment each agent holds at most one good, exactly min(4, n) goods
\* are assigned, each was removed from the pool when chosen, and the goods
\* handed to Phase 1B are exactly the unassigned ones in good-list order.
C17_Phase1AShape ==
    /\ [][(pc = "phase1a" /\ pc' = "phase1a") =>
            \E p \in Players : \E g \in Range(available) :
                /\ alloc[p] = <<>>
                /\ alloc' = [alloc EXCEPT ![p] = <<g>>]
                /\ g \notin Range(available')
                /\ Range(available') = Range(available) \ {g}]_vars
    /\ [][(pc = "phase1a" /\ pc' = "phase1b") =>
            /\ (turn = NumPlayers \/ available = <<>>)
            /\ alloc' = alloc
            /\ \A p \in Players : Len(alloc[p]) <= 1
            /\ Cardinality(UNION {Range(alloc[p]) : p \in Players})
                   = (IF n < NumPlayers THEN n ELSE NumPlayers)
            /\ Cardinality({p \in Players : alloc[p] # <<>>})
                   = (IF n < NumPlayers THEN n ELSE NumPlayers)
            /\ Range(remaining') = Goods \ UNION {Range(alloc[p]) : p \in Players}
            /\ Range(remaining') = Range(available)
            /\ \A a, b \in 1..Len(remaining') : a < b => remaining'[a] < remaining'[b]]_vars

C17_Witness ==
    /\ pc = "phase1b"
    /\ last = NoStep
    /\ n >= 6
    /\ \A p \in Players : Len(alloc[p]) = 1
    /\ Len(remaining) = n - NumPlayers
    /\ remaining # SubSeq(GoodList, NumPlayers + 1, n)

\* The pool as it was before the turn that has just been played.
PoolBeforeLastTurn ==
    SelectSeq(GoodList, LAMBDA g : g \in Range(available) \cup Range(alloc[order[turn]]))

\* C18: in every Phase 1A turn the good finally chosen has a sacrifice ratio
\* (best_value - value) / best_value no greater than the ceiling; an option
\* above the ceiling is never chosen.
C18_SacrificeCeiling ==
    [][(pc = "phase1a" /\ turn' = turn + 1) =>
          LET p    == order[turn + 1]
              g    == alloc'[p][Len(alloc'[p])]
              best == CHOOSE m \in {val[p][h] : h \in Range(available)} :
                          \A h \in Range(available) : m >= val[p][h]
          IN /\ g \in Range(available)
             /\ best > 0 =>
                    SacrificeDen * (best - val[p][g]) <= SacrificeNum * best]_vars

C18_Witness ==
    /\ pc = "phase1a"
    /\ turn \in 1..(NumPlayers - 1)
    /\ LET p       == order[turn]
           g       == alloc[p][1]
           options == GetTopOptions(p, PoolBeforeLastTurn, TopOptions)
       IN /\ g # options[1]
          /\ val[p][g] < val[p][options[1]]
          /\ \E k \in 1..Len(options) : TooMuchSacrifice(p, options, options[k])

\* ------------------------------------------------- Phase 1A on its own
\* Tables entered by hand for Phase 1A: small sacrifices (5 against 6),
\* discarded options (1 against 6) and a dominant good (1318) that leaves
\* scores below the tie tolerance.  Every row sums to a divisor of 1320, so
\* that 1.0 stays a small number of units.
MinChoiceGoods == 4
MaxChoiceGoods == 5

ChoiceValues == {0, 1, 5, 6, 1318}

ChoiceRows(m) ==
    {r \in [1..m -> ChoiceValues] : SeqSum(r) = 0 \/ 1320 % SeqSum(r) = 0}

\* Column g of a table with fewer columns is 0.
ChoiceSeeds == <<
    << <<1,1,1,1>>, <<5,0,1,6>>, <<6,6,0,0>>, <<0,0,5,1>> >>,
    << <<0,1318,1,1>>, <<5,1,0,6>>, <<0,6,0,6>>, <<0,1,1,6>> >>,
    << <<0,5,5,5>>, <<5,6,0,0>>, <<0,5,1,6>>, <<0,5,5,0>> >>,
    << <<1,0,1,1318>>, <<1,1,0,1318>>, <<0,1,1,1318>>, <<0,0,0,1>> >> >>

ChoiceSeedTable(k, m) ==
    [p \in Players |->
        [g \in 1..m |-> IF g <= Len(ChoiceSeeds[k][p]) THEN ChoiceSeeds[k][p][g] ELSE 0]]

\* A seed table over m goods with the row of one player replaced.
ChoiceTables(m) ==
    {[ChoiceSeedTable(k, m) EXCEPT ![p] = r] :
        k \in 1..Len(ChoiceSeeds), p \in Players, r \in ChoiceRows(m)}

ChoiceInit ==
    /\ n \in MinChoiceGoods..MaxChoiceGoods
    /\ raw \in ChoiceTables(n)
    /\ val = raw
    /\ unit = 0
    /\ pc = "start"
    /\ alloc = EmptyAllocation
    /\ util = [p \in Players |-> 0]
    /\ available = <<>>
    /\ order = <<>>
    /\ turn = 0
    /\ remaining = <<>>
    /\ queue = <<>>
    /\ seen = {}
    /\ step = 0
    /\ last = NoStep
    /\ info = NoInfo
    /\ error = <<>>

ChoiceNext == NormalizeAll \/ StartRoundRobin \/ RoundRobinTurn \/ EndRoundRobin

ChoiceSpec == ChoiceInit /\ [][ChoiceNext]_vars

\* The orders in which a list of options can be evaluated.
Orders(options) ==
    {f \in [1..Len(options) -> Range(options)] : Range(f) = Range(options)}

\* A turn of the loop that is not the last player's is about to be played.
NonLastTurn == pc = "phase1a" /\ available # <<>> /\ turn + 1 < Len(order)

\* good is not discarded and its score exceeds that of every other option
\* that is not discarded by more than the tie tolerance.
StrictlyHighest(p, options, good, remainingPlayers, avail) ==
    /\ good \in Range(options)
    /\ ~TooMuchSacrifice(p, options, good)
    /\ \A other \in Range(options) \ {good} :
          TooMuchSacrifice(p, options, other)
          \/ TieDenA * ConsiderationScore(p, options, good, remainingPlayers, avail)
               > TieDenA * ConsiderationScore(p, options, other, remainingPlayers, avail)
                   + Len(remainingPlayers) * unit

\* C19: in a non-last turn, an option that is not discarded and whose score
\* exceeds the score of every other such option by more than the tolerance
\* is the one _choose_with_consideration returns, in whatever order the top
\* options are evaluated, and it is the good the acting agent receives.
C19_StrictlyHighestWins ==
    /\ [](NonLastTurn =>
            LET p       == order[turn + 1]
                rest    == SubSeq(order, turn + 2, Len(order))
                options == GetTopOptions(p, available, TopOptions)
            IN \A perm \in Orders(options) : \A x \in Range(options) :
                  StrictlyHighest(p, perm, x, rest, available) =>
                      ChooseWithConsideration(p, perm, rest, available) = x)
    /\ [][(NonLastTurn /\ turn' = turn + 1) =>
            LET p       == order[turn + 1]
                rest    == SubSeq(order, turn + 2, Len(order))
                options == GetTopOptions(p, available, TopOptions)
            IN \A x \in Range(options) :
                  StrictlyHighest(p, options, x, rest, available) =>
                      alloc'[p] = <<x>>]_vars

C19_Witness ==
    /\ pc = "phase1a"
    /\ turn \in 1..(NumPlayers - 1)
    /\ LET p       == order[turn]
           rest    == SubSeq(order, turn + 1, Len(order))
           options == GetTopOptions(p, PoolBeforeLastTurn, TopOptions)
           g       == alloc[p][1]
       IN /\ g # options[1]
          /\ val[p][g] < val[p][options[1]]
          /\ StrictlyHighest(p, options, g, rest, PoolBeforeLastTurn)

\* The options tied for the best score: not discarded, strictly positive,
\* and within the tolerance of the highest score of an option not discarded.
TiedForBest(p, options, remainingPlayers, avail) ==
    LET kept == SelectSeq(options, LAMBDA g : ~TooMuchSacrifice(p, options, g))
        sc(g) == ConsiderationScore(p, options, g, remainingPlayers, avail)
    IN SelectSeq(kept, LAMBDA g :
           /\ sc(g) > 0
           /\ \A h \in Range(kept) :
                 TieDenA * sc(h) <= TieDenA * sc(g) + Len(remainingPlayers) * unit)

\* next_agent_value(good) - the next agent's best value among the goods
\* that remain once good is removed
CostForNext(next, good, avail) ==
    val[next][good]
        - (CHOOSE m \in {val[next][h] : h \in Range(avail) \ {good}} :
               \A h \in Range(avail) \ {good} : m >= val[next][h])

\* C20: when two or more options are tied in consideration score, the good
\* chosen is the tied option of lowest opportunity cost for the next agent,
\* the first one among equal costs.
C20_TieBreakLowestCost ==
    NonLastTurn =>
        LET p       == order[turn + 1]
            rest    == SubSeq(order, turn + 2, Len(order))
            options == GetTopOptions(p, available, TopOptions)
            tied    == TiedForBest(p, options, rest, available)
            chosen  == ChooseWithConsideration(p, options, rest, available)
        IN Len(tied) >= 2 =>
              \E k \in 1..Len(tied) :
                  /\ tied[k] = chosen
                  /\ \A j \in 1..Len(tied) :
                        CostForNext(rest[1], tied[k], available)
                            <= CostForNext(rest[1], tied[j], available)
                  /\ \A j \in 1..(k - 1) :
                        CostForNext(rest[1], tied[k], available)
                            < CostForNext(rest[1], tied[j], available)

\* The largest gain v_c(bundle_j + good) - v_c(bundle_c) over the agents c # j.
LargestGain(a, good, j) ==
    LET gains == {BundleValue(c, Append(a[j], good)) - BundleValue(c, a[c]) :
                     c \in Players \ {j}}
    IN CHOOSE m \in gains : \A x \in gains : m >= x

\* C21: the champion graph has no edge from an agent to itself; it has an
\* edge j -> c exactly when the largest gain over the agents c # j is
\* strictly positive, and then c attains that gain and has the lowest
\* current value of its own bundle among the agents that attain it.
C21_ChampionGraph ==
    (pc = "phase1b" /\ remaining # <<>>) =>
        LET good  == Head(remaining)
            graph == BuildChampionGraph(good, alloc)
        IN \A j \in Players :
              /\ graph[j] \in (Players \ {j}) \cup {0}
              /\ graph[j] # 0 <=> LargestGain(alloc, good, j) > 0
              /\ graph[j] # 0 =>
                    /\ BundleValue(graph[j], Append(alloc[j], good))
                           - BundleValue(graph[j], alloc[graph[j]])
                         = LargestGain(alloc, good, j)
                    /\ \A c \in Players \ {j} :
                          BundleValue(c, Append(alloc[j], good)) - BundleValue(c, alloc[c])
                              = LargestGain(alloc, good, j)
                          => BundleValue(graph[j], alloc[graph[j]]) <= BundleValue(c, alloc[c])

C21_Witness ==
    /\ pc = "phase1b"
    /\ remaining # <<>>
    /\ LET good  == Head(remaining)
           graph == BuildChampionGraph(good, alloc)
       IN /\ \E j \in Players : graph[j] = 0
          /\ \E j \in Players : \E c \in Players \ {j} :
                /\ graph[j] # 0
                /\ c < graph[j]
                /\ BundleValue(c, Append(alloc[j], good)) - BundleValue(c, alloc[c])
                     = LargestGain(alloc, good, j)
                /\ BundleValue(graph[j], alloc[graph[j]]) < BundleValue(c, alloc[c])

\* ------------------------------------------------ the cycle search alone
\* The champion graphs over the four agents: every agent has one champion
\* other than itself, or none (0).
ChampionGraphs == {g \in [Players -> Players \cup {0}] : \A j \in Players : g[j] # j}

CycleInit ==
    /\ n = 0
    /\ raw = EmptyAllocation
    /\ val = raw
    /\ unit = 0
    /\ pc = "graph"
    /\ alloc = EmptyAllocation
    /\ util = [p \in Players |-> 0]
    /\ available = <<>>
    /\ order = <<>>
    /\ turn = 0
    /\ remaining = <<>>
    /\ queue = <<>>
    /\ seen = {}
    /\ step = 0
    /\ last \in {[kind |-> "graph", graph |-> g] : g \in ChampionGraphs}
    /\ info = NoInfo
    /\ error = <<>>

\* cycles = self._find_all_cycles(champion_graph)
FindCycles ==
    /\ pc = "graph"
    /\ pc' = "cycles"
    /\ last' = [kind |-> "cycles", graph |-> last.graph,
                cycles |-> FindAllCycles(last.graph)]
    /\ UNCHANGED <<n, raw, val, unit, alloc, util, available, order, turn,
                   remaining, queue, seen, step, info, error>>

CycleNext == FindCycles

CycleSpec == CycleInit /\ [][CycleNext]_vars

\* The node reached from x after k edges (0 once the walk has left the graph).
RECURSIVE Follow(_, _, _)
Follow(graph, x, k) ==
    IF k = 0 \/ x = 0 THEN x ELSE Follow(graph, graph[x], k - 1)

\* x lies on a directed cycle of the graph.
OnCycle(graph, x) == \E k \in 1..NumPlayers : Follow(graph, x, k) = x

\* C22: _find_all_cycles returns exactly the directed cycles of the graph,
\* each once: every returned list has distinct members, at least two of
\* them, and each member's champion is the next member (the last one's is
\* the first); every node on a cycle is in exactly one returned list, and a
\* node on a tail leading into a cycle is in none.
C22_CycleSearch ==
    pc = "cycles" =>
        LET graph  == last.graph
            cycles == last.cycles
        IN /\ \A i \in 1..Len(cycles) :
                 LET c == cycles[i]
                 IN /\ Len(c) >= 2
                    /\ \A k, l \in 1..Len(c) : k # l => c[k] # c[l]
                    /\ \A k \in 1..Len(c) : graph[c[k]] = c[(k % Len(c)) + 1]
           /\ \A i, j \in 1..Len(cycles) :
                 i # j => Range(cycles[i]) \cap Range(cycles[j]) = {}
           /\ \A x \in Players :
                 OnCycle(graph, x) <=> \E i \in 1..Len(cycles) : x \in Range(cycles[i])

C22_Witness ==
    /\ pc = "cycles"
    /\ last.graph = <<2, 3, 4, 2>>
    /\ last.cycles = << <<2, 3, 4>> >>

\* --------------------------------------------------- Phase 1 on its own
\* Tables entered by hand for Phase 1B: a good worth 1318 or 659 against
\* goods worth 1 or 2 leaves totals of envy that differ by less than the tie
\* tolerance.  Every row sums to a divisor of 1320.  Column g of a table
\* with fewer columns is 0.
MinResolveGoods == 6
MaxResolveGoods == 6

ResolveValues == {0, 1, 2, 659, 1318}

ResolveSeeds == <<
    << <<0,2,2,2,2,2>>, <<2,1,0,0,0,2>>, <<1,0,1,1,2,0>>, <<659,659,0,1,1,0>> >>,
    << <<1,1,2,2,2,0>>, <<1,2,1,2,1,1>>, <<0,1,0,1,0,1318>>, <<1,659,0,1,659,0>> >>,
    << <<0,0,0,1318,1,1>>, <<0,2,659,0,0,659>>, <<1,0,1,1318,0,0>>, <<1,659,0,0,659,1>> >>,
    << <<1,1,2,2,1,1>>, <<0,0,0,2,1,0>>, <<1,0,1,2,1,1>>, <<1,1,0,0,2,1>> >>,
    << <<0,1,329,1,329,0>>, <<329,330,329,1,2,329>>, <<329,660,0,329,2,0>>, <<0,660,0,1,329,330>> >> >>

ResolveSeedTable(k, m) ==
    [p \in Players |->
        [g \in 1..m |-> IF g <= Len(ResolveSeeds[k][p]) THEN ResolveSeeds[k][p][g] ELSE 0]]

\* A seed table over m goods with at most two values of one player replaced.
ResolveTables(m) ==
    {t \in {[ResolveSeedTable(k, m) EXCEPT ![p][g] = v, ![p][h] = w] :
                k \in 1..Len(ResolveSeeds), p \in Players, g \in 1..m, h \in 1..m,
                v \in ResolveValues, w \in ResolveValues} :
        \A p \in Players : SeqSum(t[p]) = 0 \/ 1320 % SeqSum(t[p]) = 0}

ResolveInit ==
    /\ n \in MinResolveGoods..MaxResolveGoods
    /\ raw \in ResolveTables(n)
    /\ val = raw
    /\ unit = 0
    /\ pc = "start"
    /\ alloc = EmptyAllocation
    /\ util = [p \in Players |-> 0]
    /\ available = <<>>
    /\ order = <<>>
    /\ turn = 0
    /\ remaining = <<>>
    /\ queue = <<>>
    /\ seen = {}
    /\ step = 0
    /\ last = NoStep
    /\ info = NoInfo
    /\ error = <<>>

ResolveNext ==
    \/ NormalizeAll
    \/ StartRoundRobin
    \/ RoundRobinTurn
    \/ EndRoundRobin
    \/ ChampionGraphAllocation

ResolveSpec == ResolveInit /\ [][ResolveNext]_vars

\* The last Phase 1B step resolved a cycle.
CycleResolved == pc = "phase1b" /\ last.kind \in {"rotation", "direct"}

\* The direct assignment to the recipient chosen by Strategy 1.
ChosenDirect(cycle, good, a) ==
    DirectAssignment(BestDirect(cycle, good, a).recipient, good, a)

MinOf(x, y) == IF x <= y THEN x ELSE y

\* C23: after _process_cycle the committed allocation is the one of lower
\* total EFX-envy among the direct assignment to the chosen recipient and
\* the rotation, the one of lower total envy when the EFX-envy is equal.
C23_BetterStrategyKept ==
    CycleResolved =>
        LET direct == ChosenDirect(last.cycle, last.good, last.before)
            rot    == Rotation(last.cycle, last.good, last.before)
        IN /\ alloc \in {direct, rot}
           /\ TotalEfxEnvy(alloc) = MinOf(TotalEfxEnvy(direct), TotalEfxEnvy(rot))
           /\ TotalEfxEnvy(direct) = TotalEfxEnvy(rot) =>
                 TotalEnvy(alloc) = MinOf(TotalEnvy(direct), TotalEnvy(rot))

\* The last Phase 1B step found no cycle and took the source branch.
SourceAssigned == pc = "phase1b" /\ last.kind = "source"

\* The agent whose bundle received the good in the last Phase 1B step.
LastRecipient == CHOOSE p \in Players : alloc[p] = Append(last.before[p], last.good)

C26_RotationProfitable ==
    (pc = "phase1b" /\ last.kind = "rotation") =>
        /\ alloc = Rotation(last.cycle, last.good, last.before)
        /\ \A p \in Range(last.cycle) :
              BundleValue(p, alloc[p]) > BundleValue(p, last.before[p])

\* C27: whenever find_efx_allocation_algorithm_1 returns, check_EFX is true
\* on the returned allocation, and if Phase 2 ran the diagnostics have
\* improvements_found and efx_achieved_in_phase2 set; a run whose Phase 2
\* does not reach EFX returns no allocation.
C27_ReturnCertified ==
    /\ pc = "done" =>
          /\ check_EFX(alloc, util)
          /\ util = CalculateUtilities(alloc)
          /\ info.executed =>
                /\ info.improvements_found
                /\ info.efx_achieved_in_phase2
                /\ TotalEfxEnvy(alloc) = 0
    /\ pc = "failed" => (info.executed /\ TotalEfxEnvy(alloc) > 0)

C27_Witness ==
    /\ pc = "done"
    /\ info.executed
    /\ info.steps >= 2
    /\ info.improvements_found
    /\ info.efx_achieved_in_phase2
    /\ check_EFX(alloc, util)
    /\ info.envy_reduction < 0

\* Total EFX-envy and total regular envy after the direct assignment of the
\* good to player p, as the Strategy 1 loop of _process_cycle computes them.
DirectEfxEnvy(p, good, a) == TotalEfxEnvy(DirectAssignment(p, good, a))

DirectEnvy(p, good, a) == TotalEnvy(DirectAssignment(p, good, a))

\* x is within the tie tolerance of y.
WithinTolerance(x, y) == TieDenB * x <= TieDenB * y + unit

\* The members of the cycle whose direct assignment is within the tolerance
\* of the lowest total EFX-envy any member obtains.
TiedOnEfxEnvy(cycle, good, a) ==
    {p \in Range(cycle) :
        \A q \in Range(cycle) :
            WithinTolerance(DirectEfxEnvy(p, good, a), DirectEfxEnvy(q, good, a))}

\* Among those, the members within the tolerance of the lowest regular envy.
TiedOnBoth(cycle, good, a) ==
    {p \in TiedOnEfxEnvy(cycle, good, a) :
        \A q \in TiedOnEfxEnvy(cycle, good, a) :
            WithinTolerance(DirectEnvy(p, good, a), DirectEnvy(q, good, a))}

\* C24: the recipient Strategy 1 selects for the direct assignment is within
\* the tie tolerance of the lowest total EFX-envy over the cycle members,
\* within the tolerance of the lowest regular envy among the members tied on
\* EFX-envy, and the smallest agent id among the members tied on both.
C24_DirectRecipient ==
    CycleResolved =>
        LET r == BestDirect(last.cycle, last.good, last.before).recipient
        IN /\ r \in TiedOnEfxEnvy(last.cycle, last.good, last.before)
           /\ r \in TiedOnBoth(last.cycle, last.good, last.before)
           /\ \A p \in TiedOnBoth(last.cycle, last.good, last.before) : r <= p

\* The goods of a set as a list, in increasing order.
RECURSIVE Ascending(_)
Ascending(S) ==
    IF S = {} THEN <<>>
    ELSE LET x == CHOOSE y \in S : \A z \in S : y <= z
         IN <<x>> \o Ascending(S \ {x})

\* The division _create_efx_bundles_split_division builds for player p from
\* `goods' is two non-empty disjoint bundles that cover the input and pass
\* _is_division_efx_for_player.
CutPassesOwnCheck(p, goods) ==
    LET d == CreateEfxBundlesSplitDivision(p, goods)
    IN /\ d # <<>>
       /\ d[1] # <<>>
       /\ d[2] # <<>>
       /\ Range(d[1]) \cap Range(d[2]) = {}
       /\ Range(d[1]) \cup Range(d[2]) = Range(goods)
       /\ Len(d[1]) + Len(d[2]) = Len(goods)
       /\ IsDivisionEfxForPlayer(p, d[1], d[2])

\* C28: for every agent and every set of at least two goods (here every
\* such set of the first MaxCutGoods goods of every table, and the goods of
\* every queued pair) the greedy cut is two non-empty disjoint bundles whose
\* union is the input and passes _is_division_efx_for_player; every pair in
\* the Phase 2 queue has a combined good count of at least 2; no pair popped
\* from the queue is skipped.
C28_GreedyCutNeverFails ==
    /\ pc = "round_robin" =>
          \A p \in Players : \A S \in SUBSET (Goods \cap (1..MaxCutGoods)) :
              Cardinality(S) >= 2 => CutPassesOwnCheck(p, Ascending(S))
    /\ pc = "phase2" =>
          \A k \in 1..Len(queue) :
              /\ Len(alloc[queue[k][1]]) + Len(alloc[queue[k][2]]) >= 2
              /\ CutPassesOwnCheck(queue[k][1],
                                   alloc[queue[k][1]] \o alloc[queue[k][2]])
    /\ last.kind # "skip"

\* A popped pair reached the accept/reject evaluation with a cut that had to
\* switch bundles more than once, and pairs are still queued.
C28_Witness ==
    /\ pc = "phase2"
    /\ queue # <<>>
    /\ last.kind = "reject"
    /\ Len(last.division[1]) >= 2
    /\ Len(last.division[2]) >= 2

\* C29: the cycle failure is unreachable: the fingerprint computed at the
\* start of a Phase 2 step differs from every fingerprint recorded since the
\* last accepted step, because every recorded fingerprint was taken with
\* more pairs in the queue; a step that is not accepted removes exactly the
\* popped pair and records the fingerprint, an accepted step empties the
\* record; the only error Phase 2 ends in is the exhausted queue.
C29_CycleDetectedUnreachable ==
    /\ [](/\ CycleError[1] \notin Range(error)
          /\ last.kind # "cycle"
          /\ pc = "phase2" =>
                /\ CreatePhase2StateHash(queue, alloc) \notin seen
                /\ \A h \in seen : Cardinality(h.rel) > Len(queue)
          /\ pc = "phase2_raised" => error = ExhaustedError /\ queue = <<>>
          /\ pc = "failed" =>
                error = <<"Algorithm failed in Phase 2: ">> \o ExhaustedError)
    /\ [][Phase2Stepped =>
            /\ last'.kind # "accept" =>
                  /\ queue' = Tail(queue)
                  /\ seen' = seen \cup {CreatePhase2StateHash(queue, alloc)}
            /\ last'.kind = "accept" => seen' = {}]_vars

\* A pair was rejected after an earlier accepted step had emptied the
\* record: the record holds only fingerprints taken since that step.
C29_Witness ==
    /\ pc = "phase2"
    /\ last.kind = "reject"
    /\ seen # {}
    /\ step > Cardinality(seen)

\* C30: in Phase 1B a champion graph without a cycle leaves at least one
\* agent without an outgoing champion edge, so the good goes to a source and
\* the highest-valuation fallback is never executed; after a source
\* assignment no other agent has positive regular envy towards the
\* recipient's new bundle.
C30_SourceBranchAlwaysTaken ==
    /\ last.kind # "fallback"
    /\ (pc = "phase1b" /\ remaining # <<>>) =>
          LET graph == BuildChampionGraph(Head(remaining), alloc)
          IN FindAllCycles(graph) = <<>> => \E p \in Players : graph[p] = 0
    /\ SourceAssigned =>
          /\ last.graph[LastRecipient] = 0
          /\ FindAllCycles(last.graph) = <<>>
          /\ \A i \in Players \ {LastRecipient} :
                EnvyEntry(alloc, i, LastRecipient) = 0

\* A source received a good that other agents value, next to goods it
\* already held, while some agents had a champion and two agents had none.
C30_Witness ==
    /\ SourceAssigned
    /\ Len(alloc[LastRecipient]) >= 2
    /\ \E i \in Players \ {LastRecipient} : val[i][last.good] > 0
    /\ \E j \in Players : last.graph[j] # 0
    /\ \E p \in Players \ {LastRecipient} : last.graph[p] = 0

====
